---- MODULE Spec2Model ----
(***************************************************************************)
(* Upload sessions, the finalize pipeline and the deep link registry of    *)
(* src/bot.py, as a state machine.                                         *)
(*                                                                         *)
(* Handlers run on the worker threads of telebot.TeleBot (src/bot.py:63).  *)
(* A handler that makes no blocking call between its reads and writes of   *)
(* PENDING_UPLOADS is one action; process_now, which calls process_media   *)
(* (download, transform stages, registry insert, all blocking), is a       *)
(* sequence of steps of the worker thread that runs it.                    *)
(*                                                                         *)
(* Spec:    the handlers, driven by an admin and a user who is not one.    *)
(* SpecRun: one run of process_media over every configured session.        *)
(* SpecTwo: the handlers driven by two admins, one with a live session.    *)
(* SpecDl:  one call of download_file_parallel, its parts on the threads   *)
(*          of its ThreadPoolExecutor.                                     *)
(***************************************************************************)
EXTENDS Integers, FiniteSets, Sequences, TLC

\* ------------------------------------------------------------ bounds
\* events (uploads, button presses, text messages, /start) handled in one behaviour
MaxEvents == 4

\* ------------------------------------------------------------ domains
\* worker threads of the TeleBot created at src/bot.py:63
NumThreads == 2
Threads    == 1..NumThreads

Users   == {1, 2, 3}
ADMINS  == {1, 2}
\* the users that send events: an admin and a user who is not one
Actors  == {1, 3}
FileIds == {"fA", "fB"}
Kinds   == {"video", "photo"}
\* the values str(uuid.uuid4())[:12].replace('-', '') can take
Tokens  == {"t1", "t2"}
\* what a deep link can carry: the tokens and a string that is never generated
Payloads == Tokens \cup {"zz"}
\* a session object is named by the number of the upload event that made it
SessIds == 1..MaxEvents
Texts   == {"/cancel", "wm"}

\* python's None for preview_length and collage_frames
None == 0

\* callback data: what the buttons of the menus carry, and two strings no button
\* carries (a frame count that is not offered, and a suffix that is no number)
CallbackData ==
  { "menu_set_preview", "set_preview_3", "set_preview_no",
    "menu_set_collage", "set_collage_4", "set_collage_no",
    "set_collage_5", "set_collage_x",
    "menu_set_watermark", "set_watermark_on", "set_watermark_off",
    "watermark_text", "watermark_position", "pos_top-left",
    "watermark_opacity", "opacity_1.0", "menu_toggle_protection",
    "back_to_menu" }

\* call.data.startswith(prefix)
StartsWith(data, prefix) ==
  CASE prefix = "set_preview_" -> data \in {"set_preview_3", "set_preview_no"}
    [] prefix = "set_collage_" -> data \in {"set_collage_4", "set_collage_no",
                                             "set_collage_5", "set_collage_x"}
    [] prefix = "pos_"         -> data \in {"pos_top-left"}
    [] prefix = "opacity_"     -> data \in {"opacity_1.0"}
    [] OTHER                   -> FALSE

\* int(call.data.split("_")[-1])
SuffixInt(data) ==
  CASE data = "set_preview_3" -> 3
    [] data = "set_collage_4" -> 4
    [] data = "set_collage_5" -> 5
    [] OTHER                  -> None

\* int() raises ValueError: the suffix is no number
SuffixRaises(data) == data = "set_collage_x"

\* the durations and frame counts on the buttons of the two menus
PreviewChoices == {3, 5, 7, 10}
CollageChoices == {4, 6, 9, 12}

\* whether a set_preview_ or set_collage_ event carries a value of its menu
Offered(data) ==
  CASE data \in {"set_preview_no", "set_collage_no"} -> TRUE
    [] SuffixRaises(data)                -> FALSE
    [] StartsWith(data, "set_preview_")  -> SuffixInt(data) \in PreviewChoices
    [] StartsWith(data, "set_collage_")  -> SuffixInt(data) \in CollageChoices
    [] OTHER                             -> TRUE

\* call.data.replace("pos_", "")
SuffixPos(data) == IF data = "pos_top-left" THEN "top-left" ELSE data

\* float(call.data.replace("opacity_", "")), in percent
SuffixOpacity(data) == IF data = "opacity_1.0" THEN 100 ELSE 50

\* BOT_CONFIG defaults read by handle_media
BOT_CONFIG ==
  [ watermark_text     |-> "",
    watermark_position |-> "bottom-right",
    watermark_opacity  |-> 50 ]

VARIABLES
  PENDING_UPLOADS,  \* owner -> the session object it maps to, 0 when absent
  heap,             \* session object -> its fields (python dicts are shared by reference)
  media,            \* rows of the media table
  threads,          \* worker thread -> the handler it runs
  files,            \* working files present in the working directory
  count,            \* events handled so far
  issued,           \* history: the arguments of every successful insert
  links,            \* history: the deep links returned to operators
  done,             \* history: the owners whose finalize has ended with a link returned
                    \* and who have not uploaded since
  last,             \* history: what the last step did
  par               \* the frame of a call that is looked into (download_file_parallel
                    \* and the files it writes, generate_video_collage,
                    \* generate_video_preview)

vars == <<PENDING_UPLOADS, heap, media, threads, files, count, issued, links, done, last, par>>

\* ------------------------------------------------------------ sessions
Free ==
  [ file_id |-> "", media_type |-> "",
    generate_preview |-> FALSE, generate_collage |-> FALSE,
    preview_length |-> None, collage_frames |-> None,
    watermark_enabled |-> FALSE, watermark_text |-> "",
    watermark_position |-> "", watermark_opacity |-> 0,
    content_protection |-> FALSE, waiting_for |-> "" ]

\* mutant: preview and collage start as BOT_CONFIG has them (generated by default)
NewSessionFromConfig(f, k) ==
  [ file_id |-> f, media_type |-> k,
    generate_preview |-> TRUE, generate_collage |-> TRUE,
    preview_length |-> 3, collage_frames |-> 4,
    watermark_enabled |-> FALSE,
    watermark_text |-> BOT_CONFIG.watermark_text,
    watermark_position |-> BOT_CONFIG.watermark_position,
    watermark_opacity |-> BOT_CONFIG.watermark_opacity,
    content_protection |-> TRUE, waiting_for |-> "" ]

\* the dict handle_media stores
NewSession(f, k) ==
  [ file_id |-> f, media_type |-> k,
    generate_preview |-> FALSE, generate_collage |-> FALSE,
    preview_length |-> None, collage_frames |-> None,
    watermark_enabled |-> FALSE,
    watermark_text |-> BOT_CONFIG.watermark_text,
    watermark_position |-> BOT_CONFIG.watermark_position,
    watermark_opacity |-> BOT_CONFIG.watermark_opacity,
    content_protection |-> TRUE, waiting_for |-> "" ]

\* mutant: the upload keeps a session that is already there (setdefault)
UploadedKeepOld(old, f, k) == IF old.file_id # "" THEN old ELSE NewSession(f, k)

\* PENDING_UPLOADS[user_id] = {...}: the value stored, whatever was there before
Uploaded(old, f, k) == NewSession(f, k)

\* mutant: every user passes the check
is_admin_anyone(u) == u \in Users

is_admin(u) == u \in ADMINS

IdleThread ==
  [ pc |-> "idle", u |-> 0, sid |-> 0, file_id |-> "", media_type |-> "",
    path |-> "", payload |-> "",
    \* history of the run: the session as process_media found it on entry, whether
    \* an event changed the session since, the stages started, the stages that
    \* failed, and whether the media was acquired
    snap |-> Free, dirty |-> FALSE, att |-> {}, fail |-> {}, dl |-> "none",
    \* the stages in the order they were started, and the files the previews and
    \* collages that were sent had been extracted from
    ord |-> <<>>, used |-> {},
    \* call.data of a button press whose two assignments are taken one by one
    data |-> "" ]

NoLast ==
  [ op |-> "init", u |-> 0, f |-> "", k |-> "", tok |-> "", prot |-> FALSE, res |-> "",
    told |-> "" ]

\* op: the handler or step; res: how it ended; told: what the user was sent (for
\* a download step: what the function returned to process_media)
Did(op, u, res) == [NoLast EXCEPT !.op = op, !.u = u, !.res = res]
Told(op, u, res, told) == [NoLast EXCEPT !.op = op, !.u = u, !.res = res, !.told = told]

\* no call is looked into
NoCall == [pc |-> "idle"]

\* a dict lives as long as PENDING_UPLOADS or a running handler refers to it
Collect(h, P, T) ==
  [ s \in SessIds |->
      IF (\E u \in Users : P[u] = s) \/ (\E t \in Threads : T[t].sid = s)
      THEN h[s] ELSE Free ]

\* a task waits in the pool's queue until a worker thread is free
SomeIdle == \E t \in Threads : threads[t].pc = "idle"
FirstIdle == CHOOSE t \in Threads :
               /\ threads[t].pc = "idle"
               /\ \A t2 \in Threads : threads[t2].pc = "idle" => t <= t2

\* an update is taken from the queue by a free worker thread
Dispatch ==
  /\ count < MaxEvents
  /\ SomeIdle
  /\ count' = count + 1

Init ==
  /\ PENDING_UPLOADS = [u \in Users |-> 0]
  /\ heap = [s \in SessIds |-> Free]
  /\ media = {}
  /\ threads = [t \in Threads |-> IdleThread]
  /\ files = {}
  /\ count = 0
  /\ issued = {}
  /\ links = {}
  /\ done = {}
  /\ last = NoLast
  /\ par = NoCall

\* ------------------------------------------------------------ handle_media
handle_media(u, f, k) ==
  /\ Dispatch
  /\ IF ~is_admin(u)
       THEN /\ last' = Told("upload", u, "denied", "channel_message")
            /\ UNCHANGED <<PENDING_UPLOADS, heap, done>>
       ELSE LET s == count + 1
                old == IF PENDING_UPLOADS[u] = 0 THEN Free ELSE heap[PENDING_UPLOADS[u]]
                P == [PENDING_UPLOADS EXCEPT ![u] = s]
            IN /\ PENDING_UPLOADS' = P
               /\ heap' = Collect([heap EXCEPT ![s] = Uploaded(old, f, k)], P, threads)
               /\ done' = done \ {u}
               /\ last' = [Told("upload", u,
                                IF old = Free THEN "new"
                                ELSE IF old.waiting_for = "" THEN "replaced"
                                ELSE "replaced_waiting", "menu")
                             EXCEPT !.f = f, !.k = k]
  /\ UNCHANGED <<media, threads, files, issued, links, par>>

\* history: the runs whose session object an event has just changed
Touched(sid, h, h2) ==
  [ t \in Threads |->
      IF sid # 0 /\ threads[t].sid = sid /\ h2[sid] # h[sid]
      THEN [threads[t] EXCEPT !.dirty = TRUE] ELSE threads[t] ]

\* ------------------------------------------------------------ handle_callback
\* the elif chain of handle_callback below the session lookup, process_now apart:
\* the session dict after the branch that call.data selects
ApplyOption(s, data) ==
  IF data = "menu_set_preview" THEN s
  ELSE IF StartsWith(data, "set_preview_") THEN
    IF data = "set_preview_no"
      THEN [s EXCEPT !.preview_length = None, !.generate_preview = FALSE]
      ELSE IF SuffixRaises(data) THEN s
      ELSE [s EXCEPT !.preview_length = SuffixInt(data), !.generate_preview = TRUE]
  ELSE IF data = "menu_set_collage" THEN s
  ELSE IF StartsWith(data, "set_collage_") THEN
    IF data = "set_collage_no"
      THEN [s EXCEPT !.collage_frames = None, !.generate_collage = FALSE]
      ELSE IF SuffixRaises(data) THEN s
      ELSE [s EXCEPT !.collage_frames = SuffixInt(data), !.generate_collage = TRUE]
  ELSE IF data = "menu_set_watermark" THEN s
  ELSE IF data = "set_watermark_on" THEN [s EXCEPT !.watermark_enabled = TRUE]
  ELSE IF data = "set_watermark_off" THEN [s EXCEPT !.watermark_enabled = FALSE]
  ELSE IF data = "watermark_text" THEN [s EXCEPT !.waiting_for = "watermark_text"]
  ELSE IF data = "watermark_position" THEN s
  ELSE IF StartsWith(data, "pos_") THEN [s EXCEPT !.watermark_position = SuffixPos(data)]
  ELSE IF data = "watermark_opacity" THEN s
  ELSE IF StartsWith(data, "opacity_") THEN [s EXCEPT !.watermark_opacity = SuffixOpacity(data)]
  ELSE IF data = "menu_toggle_protection"
    THEN [s EXCEPT !.content_protection = ~s.content_protection]
  ELSE s

\* mutant: a press without a session opens one (PENDING_UPLOADS.setdefault)
handle_callback_setdefault(u, data) ==
  /\ Dispatch
  /\ IF ~is_admin(u)
       THEN /\ last' = Told("option", u, "ignored", "")
            /\ UNCHANGED <<heap, PENDING_UPLOADS>>
       ELSE IF PENDING_UPLOADS[u] = 0
         THEN /\ PENDING_UPLOADS' = [PENDING_UPLOADS EXCEPT ![u] = count + 1]
              /\ heap' = [heap EXCEPT ![count + 1] = ApplyOption(NewSession("", ""), data)]
              /\ last' = Told("option", u, "expired", "expired")
         ELSE /\ heap' = [heap EXCEPT ![PENDING_UPLOADS[u]] = ApplyOption(@, data)]
              /\ last' = Did("option", u, "applied")
              /\ UNCHANGED PENDING_UPLOADS
  /\ threads' = Touched(PENDING_UPLOADS[u], heap, heap')
  /\ UNCHANGED <<media, files, issued, links, done, par>>

\* mutant: the options are kept in one place for all owners, a press changes
\* every live session
handle_callback_shared(u, data) ==
  /\ Dispatch
  /\ IF ~is_admin(u)
       THEN /\ last' = Told("option", u, "ignored", "")
            /\ UNCHANGED heap
       ELSE IF PENDING_UPLOADS[u] = 0
         THEN /\ last' = Told("option", u, "expired", "expired")
              /\ UNCHANGED heap
         ELSE /\ heap' = [s \in SessIds |->
                           IF \E v \in Users : PENDING_UPLOADS[v] = s
                             THEN ApplyOption(heap[s], data) ELSE heap[s]]
              /\ last' = Did("option", u, "applied")
  /\ threads' = Touched(PENDING_UPLOADS[u], heap, heap')
  /\ UNCHANGED <<PENDING_UPLOADS, media, files, issued, links, done, par>>

\* a button press other than process_now
handle_callback(u, data) ==
  /\ Dispatch
  /\ IF ~is_admin(u)
       THEN /\ last' = Told("option", u, "ignored", "")
            /\ UNCHANGED heap
       ELSE IF PENDING_UPLOADS[u] = 0
         THEN /\ last' = Told("option", u, "expired", "expired")
              /\ UNCHANGED heap
         ELSE /\ heap' = [heap EXCEPT ![PENDING_UPLOADS[u]] = ApplyOption(@, data)]
              /\ last' = Did("option", u, IF SuffixRaises(data) THEN "ValueError"
                                          ELSE IF ~Offered(data) THEN "not_offered"
                                          ELSE "applied")
  /\ threads' = Touched(PENDING_UPLOADS[u], heap, heap')
  /\ UNCHANGED <<PENDING_UPLOADS, media, files, issued, links, done, par>>

\* ------------------------------------------------------------ text messages
\* the filter of handle_watermark_text
WaitingForText(u) ==
  /\ is_admin(u)
  /\ PENDING_UPLOADS[u] # 0
  /\ heap[PENDING_UPLOADS[u]].waiting_for = "watermark_text"

\* mutant: a text that is set switches the watermark on as well
ApplyTextEnabling(s, text) ==
  IF text = "/cancel"
    THEN [s EXCEPT !.waiting_for = ""]
    ELSE [s EXCEPT !.watermark_text = text, !.waiting_for = "", !.watermark_enabled = TRUE]

\* the session dict after handle_watermark_text
ApplyText(s, text) ==
  IF text = "/cancel"
    THEN [s EXCEPT !.waiting_for = ""]
    ELSE [s EXCEPT !.watermark_text = text, !.waiting_for = ""]

\* a text message: handle_watermark_text when its filter matches, else handle_other_messages
handle_text(u, text) ==
  /\ Dispatch
  /\ IF WaitingForText(u)
       THEN /\ heap' = [heap EXCEPT ![PENDING_UPLOADS[u]] = ApplyText(@, text)]
            /\ last' = Told("text", u, "applied",
                            IF text = "/cancel" THEN "cancelled" ELSE "text_set")
       ELSE /\ last' = Did("text", u, "other")
            /\ UNCHANGED heap
  /\ threads' = Touched(PENDING_UPLOADS[u], heap, heap')
  /\ UNCHANGED <<PENDING_UPLOADS, media, files, issued, links, done, par>>

\* ------------------------------------------------------------ registry
\* protection_int = 1 if settings['content_protection'] else 0
ProtectionInt(s) == IF s.content_protection THEN 1 ELSE 0

\* mutant: the row refers to the watermarked file when the watermark is enabled
MediaRowDerived(payload, file_id, media_type, s) ==
  [ payload |-> payload,
    file_id |-> IF s.watermark_enabled THEN "watermarked.mp4" ELSE file_id,
    media_type |-> media_type,
    content_protection |-> ProtectionInt(s) ]

\* the row INSERT INTO media writes
MediaRow(payload, file_id, media_type, s) ==
  [ payload |-> payload, file_id |-> file_id, media_type |-> media_type,
    content_protection |-> ProtectionInt(s) ]

\* mutant: the payload column is no key
PrimaryKeyUnchecked(payload) == TRUE

\* payload TEXT PRIMARY KEY: the insert raises when the payload is already a row's key
PrimaryKeyFree(payload) == \A r \in media : r.payload # payload

\* SELECT ... FROM media WHERE payload=?
SelectMedia(payload) == {r \in media : r.payload = payload}

\* mutant: the stored flag is ignored and the media is always sent protected
SendForProtected(row) ==
  [ f    |-> row.file_id,
    k    |-> IF row.media_type = "video" THEN "send_video"
             ELSE IF row.media_type = "photo" THEN "send_photo" ELSE "",
    prot |-> TRUE ]

\* what handle_start sends for a row: the file, the send operation, protect_content
SendFor(row) ==
  [ f    |-> row.file_id,
    k    |-> IF row.media_type = "video" THEN "send_video"
             ELSE IF row.media_type = "photo" THEN "send_photo" ELSE "",
    prot |-> (row.content_protection # 0) ]

\* /start <payload> from any user
handle_start(u, payload) ==
  /\ Dispatch
  /\ IF SelectMedia(payload) # {}
       THEN LET row == CHOOSE r \in SelectMedia(payload) : TRUE
                out == SendFor(row)
            IN last' = [Did("redeem", u, "sent") EXCEPT
                          !.tok = payload, !.f = out.f, !.k = out.k, !.prot = out.prot]
       ELSE last' = [Told("redeem", u, "not_found", "invalid_link") EXCEPT !.tok = payload]
  /\ UNCHANGED <<PENDING_UPLOADS, heap, media, threads, files, issued, links, done, par>>

\* ------------------------------------------------------------ process_now
Stages == {"watermark", "preview", "collage"}

\* the gates of process_media's three stages, read from the session dict
StageOn(s, stage) ==
  CASE stage = "watermark" -> s.watermark_enabled /\ s.watermark_text # ""
    [] stage = "preview"   -> s.generate_preview
    [] stage = "collage"   -> s.generate_collage

EnabledStages(s) == {st \in Stages : StageOn(s, st)}

\* mutant: every finalize takes the processing path
NeedsProcessingAlways(s) == TRUE

\* needs_processing of process_media
NeedsProcessing(s) ==
  s.generate_preview \/ s.generate_collage \/ s.watermark_enabled

\* the handler ends: its thread is free again and its references are dropped
EndHandler(t, P) ==
  LET T == [threads EXCEPT ![t] = IdleThread]
  IN /\ threads' = T
     /\ PENDING_UPLOADS' = P
     /\ heap' = Collect(heap, P, T)

\* handle_callback up to the call of process_media (the admin check, the lookup,
\* answer_callback_query, delete_message)
process_now(u) ==
  /\ Dispatch
  /\ IF ~is_admin(u)
       THEN /\ last' = Told("finalize", u, "ignored", "")
            /\ UNCHANGED threads
       ELSE IF PENDING_UPLOADS[u] = 0
         THEN /\ last' = Told("finalize", u, "expired", "expired")
              /\ UNCHANGED threads
         ELSE /\ threads' = [threads EXCEPT ![FirstIdle] =
                   [IdleThread EXCEPT !.pc = "pm_entry", !.u = u,
                                      !.sid = PENDING_UPLOADS[u]]]
              /\ last' = Told("finalize", u, "accepted", "processing")
  /\ UNCHANGED <<PENDING_UPLOADS, heap, media, files, issued, links, done, par>>

\* process_media, its first lines: the lookup, the locals, needs_processing
pm_entry(t) ==
  LET th == threads[t]
      sid == PENDING_UPLOADS[th.u]
  IN /\ th.pc = "pm_entry"
     /\ IF sid = 0
          THEN /\ EndHandler(t, PENDING_UPLOADS)
               /\ last' = Did("crash", th.u, "KeyError")
          ELSE LET s == heap[sid]
                   T == [threads EXCEPT ![t] =
                          [th EXCEPT !.sid = sid, !.file_id = s.file_id,
                                     !.media_type = s.media_type,
                                     !.snap = s, !.dirty = FALSE,
                                     !.pc = IF ~NeedsProcessing(s) THEN "instant"
                                            ELSE IF s.media_type = "video" THEN "download"
                                            ELSE "gen_link"]]
               IN /\ threads' = T
                  /\ heap' = Collect(heap, PENDING_UPLOADS, T)
                  /\ last' = Did("step", th.u, "")
                  /\ UNCHANGED PENDING_UPLOADS
     /\ UNCHANGED <<media, files, count, issued, links, done, par>>

\* mutant: INSERT OR REPLACE, a row with the same payload is overwritten
InsertOrReplace(t, payload, dbok, next) ==
  LET th == threads[t]
      s == heap[th.sid]
  IN IF dbok
       THEN /\ media' = {r \in media : r.payload # payload}
                           \cup {MediaRow(payload, th.file_id, th.media_type, s)}
            /\ issued' = issued \cup
                 {[tok |-> payload, sid |-> th.sid, f |-> th.file_id,
                   k |-> th.media_type, p |-> s.content_protection,
                   p0 |-> th.snap.content_protection]}
            /\ threads' = [threads EXCEPT ![t] = [th EXCEPT !.payload = payload, !.pc = next]]
            /\ last' = [Did("issued", th.u, "") EXCEPT !.tok = payload]
            /\ UNCHANGED <<PENDING_UPLOADS, heap>>
       ELSE /\ EndHandler(t, PENDING_UPLOADS)
            /\ last' = [Told("insert_failed", th.u, "OperationalError", "") EXCEPT !.tok = payload]
            /\ UNCHANGED <<media, issued>>

\* the insert of process_media (both copies of it): the row is written, or the
\* execute raises and the exception leaves the handler
Insert(t, payload, dbok, next) ==
  LET th == threads[t]
      s == heap[th.sid]
  IN IF dbok /\ PrimaryKeyFree(payload)
       THEN /\ media' = media \cup {MediaRow(payload, th.file_id, th.media_type, s)}
            /\ issued' = issued \cup
                 {[tok |-> payload, sid |-> th.sid, f |-> th.file_id,
                   k |-> th.media_type, p |-> s.content_protection,
                   p0 |-> th.snap.content_protection]}
            /\ threads' = [threads EXCEPT ![t] = [th EXCEPT !.payload = payload, !.pc = next]]
            /\ last' = [Did("issued", th.u, "") EXCEPT !.tok = payload]
            /\ UNCHANGED <<PENDING_UPLOADS, heap>>
       ELSE /\ EndHandler(t, PENDING_UPLOADS)
            /\ last' = [Told("insert_failed", th.u,
                             IF dbok THEN "IntegrityError" ELSE "OperationalError", "")
                          EXCEPT !.tok = payload]
            /\ UNCHANGED <<media, issued>>

\* the instant path: payload and insert
instant(t) ==
  /\ threads[t].pc = "instant"
  /\ \E payload \in Tokens, dbok \in BOOLEAN : Insert(t, payload, dbok, "instant_reply")
  /\ UNCHANGED <<files, count, links, done, par>>

\* the instant path: the link is sent, process_media deletes the session and
\* returns, and the del of handle_callback raises KeyError
instant_reply(t) ==
  LET th == threads[t]
  IN /\ th.pc = "instant_reply"
     /\ links' = links \cup {[u |-> th.u, tok |-> th.payload]}
     /\ EndHandler(t, [PENDING_UPLOADS EXCEPT ![th.u] = 0])
     /\ done' = done \cup {th.u}
     /\ last' = [Told("done", th.u, "KeyError", "link") EXCEPT !.tok = th.payload]
     /\ UNCHANGED <<media, files, count, issued, par>>

Step(t, changes) ==
  /\ threads' = [threads EXCEPT ![t] = changes]
  /\ last' = Did("step", threads[t].u, "")

\* mutant: every exception of the Bot API download leads to the MTProto download
AfterNativeAnyError(outcome) ==
  CASE outcome = "ok"      -> "watermark"
    [] outcome = "too_big" -> "pyrogram"
    [] outcome = "error"   -> "pyrogram"

\* where process_media goes after the Bot API download, by how it ended: on, or to
\* download_with_pyrogram when the exception says 'file is too big', or to the
\* outer except clause
AfterNative(outcome) ==
  CASE outcome = "ok"      -> "watermark"
    [] outcome = "too_big" -> "pyrogram"
    [] outcome = "error"   -> "cleanup"

\* get_file, download_file_parallel and bot.download_file: the video is in temp.mp4,
\* or get_file was refused for the size (nothing is written), or another exception
\* was raised, which may leave a partial temp.mp4 behind
download(t) ==
  LET th == threads[t]
  IN /\ th.pc = "download"
     /\ \E outcome \in {"ok", "too_big", "error"}, partial \in BOOLEAN :
          /\ outcome = "ok" => partial
          /\ outcome = "too_big" => ~partial
          /\ files' = IF partial THEN files \cup {"temp.mp4"} ELSE files
          /\ threads' = [threads EXCEPT ![t] =
                 [th EXCEPT !.pc = AfterNative(outcome),
                            !.dl = CASE outcome = "ok"      -> "ok"
                                     [] outcome = "too_big" -> @
                                     [] outcome = "error"   -> "failed"]]
          /\ last' = Did("download", th.u, outcome)
     /\ UNCHANGED <<PENDING_UPLOADS, heap, media, count, issued, links, done, par>>

\* what download_with_pyrogram returns when the process has ended: whether the
\* destination exists; the exit status is not read
PyrogramResult(status, fs) == "temp.mp4" \in fs

\* download_with_pyrogram: the script is written and started, and
\*   the process exits with 0 or with another status: the script is removed and
\*     the result is PyrogramResult;
\*   or it closes its output and is not over after 900 s: wait raises
\*     TimeoutExpired, the except clause returns False, the script stays;
\*   or it neither closes its output nor exits: the readline loop before wait
\*     never ends.
\* In each case the process may have left a file at the destination.
pyrogram(t) ==
  LET th == threads[t]
  IN /\ th.pc = "pyrogram"
     /\ \E status \in {"zero", "nonzero", "timeout", "hung"}, wrote \in BOOLEAN :
          LET fs == (IF wrote THEN files \cup {"temp.mp4"} ELSE files)
                      \cup (IF status \in {"timeout", "hung"}
                              THEN {"_download_optimized.py"} ELSE {})
              res == status \in {"zero", "nonzero"} /\ PyrogramResult(status, fs)
          IN /\ files' = fs
             /\ threads' = [threads EXCEPT ![t] =
                    IF status = "hung"
                      THEN [th EXCEPT !.pc = "readline"]
                      ELSE [th EXCEPT !.dl = IF status = "zero" /\ wrote THEN "ok" ELSE "failed",
                                      !.pc = IF res THEN "watermark" ELSE "cleanup"]]
             /\ last' = Told("pyrogram", th.u, status,
                             IF status = "hung" THEN "" ELSE IF res THEN "True" ELSE "False")
     /\ UNCHANGED <<PENDING_UPLOADS, heap, media, count, issued, links, done, par>>

\* mutant: a failed stage raises into the outer except clause
AfterStageAbort(stage, ok) ==
  IF ~ok THEN "cleanup"
  ELSE CASE stage = "watermark" -> "preview"
         [] stage = "preview"   -> "collage"
         [] stage = "collage"   -> "cleanup"

\* mutant: the collage block stands before the preview block
AfterStageSwapped(stage, ok) ==
  CASE stage = "watermark" -> "collage"
    [] stage = "collage"   -> "preview"
    [] stage = "preview"   -> "cleanup"

\* where process_media goes after a stage has ended, by the stage's outcome
AfterStage(stage, ok) ==
  CASE stage = "watermark" -> "preview"
    [] stage = "preview"   -> "collage"
    [] stage = "collage"   -> "cleanup"

\* one stage of process_media: its gate, the stage, its except clause
RunStage(t, stage) ==
  LET th == threads[t]
      s == heap[th.sid]
  IN /\ th.pc = stage
     /\ IF StageOn(s, stage)
          THEN \E ok \in BOOLEAN, left \in BOOLEAN :
                 \* a frame whose ffmpeg ended with an error is not loaded, so the
                 \* collage is not made, and its file, if one was written, stays
                 /\ left => (stage = "collage" /\ ~ok)
                 /\ files' = (IF stage = "watermark" /\ ok
                                THEN files \cup {"watermarked.mp4"} ELSE files)
                              \cup (IF left THEN {"frame_0.jpg"} ELSE {})
                 /\ Step(t, [th EXCEPT !.att = @ \cup {stage},
                                       !.ord = Append(@, stage),
                                       !.fail = IF ok THEN @ ELSE @ \cup {stage},
                                       !.path = IF stage = "watermark"
                                                  THEN (IF ok THEN "watermarked.mp4" ELSE "temp.mp4")
                                                  ELSE @,
                                       !.used = IF stage # "watermark" /\ ok
                                                  THEN @ \cup {th.path} ELSE @,
                                       !.pc = AfterStage(stage, ok)])
          ELSE /\ Step(t, [th EXCEPT !.path = IF stage = "watermark" THEN "temp.mp4" ELSE @,
                                     !.pc = AfterStage(stage, TRUE)])
               /\ UNCHANGED files
     /\ UNCHANGED <<PENDING_UPLOADS, heap, media, count, issued, links, done, par>>

watermark(t) == RunStage(t, "watermark")
preview(t)   == RunStage(t, "preview")
collage(t)   == RunStage(t, "collage")

\* the names cleanup_files lists, and the working files of the model that its
\* patterns match: none, for the model's other working files are frame_0.jpg and
\* _download_optimized.py, and no pattern matches frame_*.jpg or _download_*.py
CleanupList    == {"temp.mp4", "preview.mp4", "collage.jpg", "watermarked.mp4",
                   "_download_temp.py", "temp_no_audio.mp4"}
CleanupMatched == {}

\* whether cleanup_files removes a file
Removed(name) == name \in CleanupList \/ name \in CleanupMatched

\* the finally clause: cleanup_files removes the working files by name and pattern
cleanup(t) ==
  LET th == threads[t]
  IN /\ th.pc = "cleanup"
     /\ files' = {f \in files : ~Removed(f)}
     /\ Step(t, [th EXCEPT !.pc = "gen_link"])
     /\ UNCHANGED <<PENDING_UPLOADS, heap, media, count, issued, links, done, par>>

\* the processing path: payload and insert
gen_link(t) ==
  /\ threads[t].pc = "gen_link"
  /\ \E payload \in Tokens, dbok \in BOOLEAN : Insert(t, payload, dbok, "reply")
  /\ UNCHANGED <<files, count, links, done, par>>

\* the processing path: the link is sent and process_media returns
reply(t) ==
  LET th == threads[t]
  IN /\ th.pc = "reply"
     /\ links' = links \cup {[u |-> th.u, tok |-> th.payload]}
     /\ threads' = [threads EXCEPT ![t] = [th EXCEPT !.pc = "cb_del"]]
     /\ last' = [Told("link", th.u, "", "link") EXCEPT !.tok = th.payload]
     /\ UNCHANGED <<PENDING_UPLOADS, heap, media, files, count, issued, done, par>>

\* mutant: handle_callback does not delete the session after process_media
cb_del_kept(t) ==
  LET th == threads[t]
  IN /\ th.pc = "cb_del"
     /\ EndHandler(t, PENDING_UPLOADS)
     /\ done' = done \cup {th.u}
     /\ last' = [Did("done", th.u, "ok") EXCEPT !.tok = th.payload]
     /\ UNCHANGED <<media, files, count, issued, links, par>>

\* del PENDING_UPLOADS[user_id] of handle_callback, after process_media returned
cb_del(t) ==
  LET th == threads[t]
  IN /\ th.pc = "cb_del"
     /\ EndHandler(t, [PENDING_UPLOADS EXCEPT ![th.u] = 0])
     /\ done' = done \cup {th.u}
     /\ last' = [Did("done", th.u, IF PENDING_UPLOADS[th.u] = 0 THEN "KeyError" ELSE "ok")
                   EXCEPT !.tok = th.payload]
     /\ UNCHANGED <<media, files, count, issued, links, par>>

\* ------------------------------------------------------------ specification
Next ==
  \/ \E u \in Actors, f \in FileIds, k \in Kinds : handle_media(u, f, k)
  \/ \E u \in Actors, data \in CallbackData : handle_callback(u, data)
  \/ \E u \in Actors, text \in Texts : handle_text(u, text)
  \/ \E u \in Actors, payload \in Payloads : handle_start(u, payload)
  \/ \E u \in Actors : process_now(u)
  \/ \E t \in Threads : pm_entry(t)
  \/ \E t \in Threads : instant(t)
  \/ \E t \in Threads : instant_reply(t)
  \/ \E t \in Threads : download(t)
  \/ \E t \in Threads : pyrogram(t)
  \/ \E t \in Threads : watermark(t)
  \/ \E t \in Threads : preview(t)
  \/ \E t \in Threads : collage(t)
  \/ \E t \in Threads : cleanup(t)
  \/ \E t \in Threads : gen_link(t)
  \/ \E t \in Threads : reply(t)
  \/ \E t \in Threads : cb_del(t)

Spec == Init /\ [][Next]_vars

\* ------------------------------------------------------------ one run of process_media
\* finalize events of a behaviour of SpecRun
RunEvents == 1

\* the button presses and the text that change what process_media reads
RunData == { "set_preview_3", "set_collage_4", "set_watermark_on", "watermark_text",
             "menu_toggle_protection" }
RunText == "wm"

\* the sessions an upload followed by button presses and texts leads to
RECURSIVE Configured(_)
Configured(S) ==
  LET N == S \cup {ApplyOption(s, d) : s \in S, d \in RunData}
             \cup {ApplyText(s, RunText) : s \in {x \in S : x.waiting_for = "watermark_text"}}
  IN IF N = S THEN S ELSE Configured(N)

\* admin 1 has uploaded a file and set its options; nothing has been finalized
InitRun ==
  /\ \E k \in Kinds : \E s \in Configured({Uploaded(Free, "fA", k)}) :
       heap = [x \in SessIds |-> IF x = 1 THEN s ELSE Free]
  /\ PENDING_UPLOADS = [u \in Users |-> IF u = 1 THEN 1 ELSE 0]
  /\ media = {}
  /\ threads = [t \in Threads |-> IdleThread]
  /\ files = {}
  /\ count = 0
  /\ issued = {}
  /\ links = {}
  /\ done = {}
  /\ last = NoLast
  /\ par = NoCall

run_process_now == count < RunEvents /\ process_now(1)

NextRun ==
  \/ run_process_now
  \/ \E t \in Threads : pm_entry(t)
  \/ \E t \in Threads : instant(t)
  \/ \E t \in Threads : instant_reply(t)
  \/ \E t \in Threads : download(t)
  \/ \E t \in Threads : pyrogram(t)
  \/ \E t \in Threads : watermark(t)
  \/ \E t \in Threads : preview(t)
  \/ \E t \in Threads : collage(t)
  \/ \E t \in Threads : cleanup(t)
  \/ \E t \in Threads : gen_link(t)
  \/ \E t \in Threads : reply(t)
  \/ \E t \in Threads : cb_del(t)

SpecRun == InitRun /\ [][NextRun]_vars

\* ------------------------------------------------------------ two owners
\* events of a behaviour of SpecTwo, the upload it starts from included
TwoEvents == 4

\* admin 2 has uploaded a file as the first event; admin 1 has no session
InitTwo ==
  /\ \E k \in Kinds :
       /\ heap = [x \in SessIds |-> IF x = 1 THEN Uploaded(Free, "fA", k) ELSE Free]
       /\ last = [Told("upload", 2, "new", "menu") EXCEPT !.f = "fA", !.k = k]
  /\ PENDING_UPLOADS = [u \in Users |-> IF u = 2 THEN 1 ELSE 0]
  /\ media = {}
  /\ threads = [t \in Threads |-> IdleThread]
  /\ files = {}
  /\ count = 1
  /\ issued = {}
  /\ links = {}
  /\ done = {}
  /\ par = NoCall

\* the events of the two admins
two_handle_media    == count < TwoEvents /\ \E u \in ADMINS, f \in FileIds, k \in Kinds : handle_media(u, f, k)
two_handle_callback == count < TwoEvents /\ \E u \in ADMINS, data \in CallbackData : handle_callback(u, data)
two_handle_text     == count < TwoEvents /\ \E u \in ADMINS, text \in Texts : handle_text(u, text)
two_process_now     == count < TwoEvents /\ \E u \in ADMINS : process_now(u)

NextTwo ==
  \/ two_handle_media
  \/ two_handle_callback
  \/ two_handle_text
  \/ two_process_now
  \/ \E t \in Threads : pm_entry(t)
  \/ \E t \in Threads : instant(t)
  \/ \E t \in Threads : instant_reply(t)
  \/ \E t \in Threads : download(t)
  \/ \E t \in Threads : pyrogram(t)
  \/ \E t \in Threads : watermark(t)
  \/ \E t \in Threads : preview(t)
  \/ \E t \in Threads : collage(t)
  \/ \E t \in Threads : cleanup(t)
  \/ \E t \in Threads : gen_link(t)
  \/ \E t \in Threads : reply(t)
  \/ \E t \in Threads : cb_del(t)

SpecTwo == InitTwo /\ [][NextTwo]_vars

\* ------------------------------------------------------------ overlapping toggles
\* presses of the protection button in a behaviour of SpecToggle
ToggleEvents == 2

\* admin 1 has uploaded a file and set its options; the protection flag is as the
\* upload left it
InitToggle ==
  /\ \E k \in Kinds :
       \E s \in {x \in Configured({Uploaded(Free, "fA", k)}) :
                   x.content_protection = Uploaded(Free, "fA", k).content_protection} :
         heap = [x \in SessIds |-> IF x = 1 THEN s ELSE Free]
  /\ PENDING_UPLOADS = [u \in Users |-> IF u = 1 THEN 1 ELSE 0]
  /\ media = {}
  /\ threads = [t \in Threads |-> IdleThread]
  /\ files = {}
  /\ count = 0
  /\ issued = {}
  /\ links = {}
  /\ done = {}
  /\ last = NoLast
  /\ par = NoCall

\* handle_callback for menu_toggle_protection, up to the elif chain: a worker
\* thread takes the press and looks the session's settings up
toggle_press ==
  /\ count < ToggleEvents
  /\ SomeIdle
  /\ PENDING_UPLOADS[1] # 0
  /\ count' = count + 1
  /\ threads' = [threads EXCEPT ![FirstIdle] =
                   [IdleThread EXCEPT !.pc = "toggle_read", !.u = 1,
                                      !.sid = PENDING_UPLOADS[1]]]
  /\ last' = Did("toggle", 1, "taken")
  /\ UNCHANGED <<PENDING_UPLOADS, heap, media, files, issued, links, done, par>>

\* the right-hand side of the assignment: settings['content_protection'] is read
toggle_read(t) ==
  LET th == threads[t]
  IN /\ th.pc = "toggle_read"
     /\ threads' = [threads EXCEPT ![t] =
                      [th EXCEPT !.pc = "toggle_write", !.snap = heap[th.sid]]]
     /\ last' = Did("toggle", th.u, "read")
     /\ UNCHANGED <<PENDING_UPLOADS, heap, media, files, count, issued, links, done, par>>

\* the value the assignment stores: the negation of the value that was read
Toggled(s, seen) == ~seen.content_protection

\* the store of the assignment, and the rest of the handler (no lock is held at
\* any point of it)
toggle_write(t) ==
  LET th == threads[t]
      T == [threads EXCEPT ![t] = IdleThread]
      h == [heap EXCEPT ![th.sid].content_protection = Toggled(heap[th.sid], th.snap)]
  IN /\ th.pc = "toggle_write"
     /\ threads' = T
     /\ heap' = Collect(h, PENDING_UPLOADS, T)
     /\ last' = [Did("toggle", th.u, "written") EXCEPT !.prot = h[th.sid].content_protection]
     /\ UNCHANGED <<PENDING_UPLOADS, media, files, count, issued, links, done, par>>

NextToggle ==
  \/ toggle_press
  \/ \E t \in Threads : toggle_read(t)
  \/ \E t \in Threads : toggle_write(t)

SpecToggle == InitToggle /\ [][NextToggle]_vars

\* ------------------------------------------------------------ overlapping presses
\* the presses that store a value and a flag
OverlapData == {"set_preview_3", "set_preview_no", "set_collage_4", "set_collage_no"}

\* the first assignment of a set_preview_ or set_collage_ branch: the value
FirstWrite(s, data) ==
  IF StartsWith(data, "set_preview_")
    THEN [s EXCEPT !.preview_length = IF data = "set_preview_no" THEN None
                                      ELSE SuffixInt(data)]
    ELSE [s EXCEPT !.collage_frames = IF data = "set_collage_no" THEN None
                                      ELSE SuffixInt(data)]

\* the second assignment of the branch: the flag
SecondWrite(s, data) ==
  IF StartsWith(data, "set_preview_")
    THEN [s EXCEPT !.generate_preview = (data # "set_preview_no")]
    ELSE [s EXCEPT !.generate_collage = (data # "set_collage_no")]

\* handle_callback up to the elif chain: a worker thread takes the press and
\* looks the session's settings up
option_press ==
  /\ count < ToggleEvents
  /\ SomeIdle
  /\ PENDING_UPLOADS[1] # 0
  /\ count' = count + 1
  /\ \E data \in OverlapData :
       threads' = [threads EXCEPT ![FirstIdle] =
                     [IdleThread EXCEPT !.pc = "set_first", !.u = 1,
                                        !.sid = PENDING_UPLOADS[1], !.data = data]]
  /\ last' = Did("option", 1, "taken")
  /\ UNCHANGED <<PENDING_UPLOADS, heap, media, files, issued, links, done, par>>

set_first(t) ==
  LET th == threads[t]
  IN /\ th.pc = "set_first"
     /\ heap' = [heap EXCEPT ![th.sid] = FirstWrite(@, th.data)]
     /\ threads' = [threads EXCEPT ![t] = [th EXCEPT !.pc = "set_second"]]
     /\ last' = Did("option", th.u, "value")
     /\ UNCHANGED <<PENDING_UPLOADS, media, files, count, issued, links, done, par>>

\* the flag is stored and the handler ends (no lock is held at any point of it)
set_second(t) ==
  LET th == threads[t]
      T == [threads EXCEPT ![t] = IdleThread]
  IN /\ th.pc = "set_second"
     /\ threads' = T
     /\ heap' = Collect([heap EXCEPT ![th.sid] = SecondWrite(@, th.data)],
                         PENDING_UPLOADS, T)
     /\ last' = Did("option", th.u, "applied")
     /\ UNCHANGED <<PENDING_UPLOADS, media, files, count, issued, links, done, par>>

NextOverlap ==
  \/ option_press
  \/ \E t \in Threads : set_first(t)
  \/ \E t \in Threads : set_second(t)

SpecOverlap == InitToggle /\ [][NextOverlap]_vars

\* ------------------------------------------------------------ two owners' pipelines
\* finalize events of a behaviour of SpecPair, one of each user
PairEvents == 2

\* a video session with one stage enabled
PairSessions ==
  {ApplyOption(Uploaded(Free, "fA", "video"), d) : d \in {"set_preview_3", "set_collage_4"}}

\* admins 1 and 2 have each uploaded a video and enabled a stage
InitPair ==
  /\ \E s1 \in PairSessions, s2 \in PairSessions :
       heap = [x \in SessIds |-> IF x = 1 THEN s1 ELSE IF x = 2 THEN s2 ELSE Free]
  /\ PENDING_UPLOADS = [u \in Users |-> IF u \in ADMINS THEN u ELSE 0]
  /\ media = {}
  /\ threads = [t \in Threads |-> IdleThread]
  /\ files = {}
  /\ count = 0
  /\ issued = {}
  /\ links = {}
  /\ done = {}
  /\ last = NoLast
  /\ par = NoCall

\* each user presses process_now once, in the order of the user ids
pair_process_now == count < PairEvents /\ count + 1 \in Users /\ process_now(count + 1)

NextPair ==
  \/ pair_process_now
  \/ \E t \in Threads : pm_entry(t)
  \/ \E t \in Threads : download(t)
  \/ \E t \in Threads : pyrogram(t)
  \/ \E t \in Threads : watermark(t)
  \/ \E t \in Threads : preview(t)
  \/ \E t \in Threads : collage(t)
  \/ \E t \in Threads : cleanup(t)
  \/ \E t \in Threads : gen_link(t)
  \/ \E t \in Threads : reply(t)
  \/ \E t \in Threads : cb_del(t)

SpecPair == InitPair /\ [][NextPair]_vars

\* ------------------------------------------------------------ download_file_parallel
\* the largest file, in bytes, and the largest num_connections of a call
MaxSize == 4
MaxConn == 3

\* the file behind the url: the byte at offset i - 1 is written i
Source(size) == [i \in 1..size |-> i]

\* the bytes at offsets lo..hi of the file
Slice(lo, hi) == [k \in 1..(hi - lo + 1) |-> lo + k]

\* the body the file server sends for 'Range: bytes=lo-hi': the range cut at the
\* end of the file; a range whose end is before its start is no range, and the
\* header is ignored
Response(size, lo, hi) ==
  IF lo <= hi /\ lo < size
    THEN Slice(lo, IF hi < size THEN hi ELSE size - 1)
    ELSE Source(size)

\* start_byte and end_byte of part i
PartRange(file_size, num_connections, i) ==
  LET part_size  == file_size \div num_connections
      start_byte == i * part_size
      end_byte   == IF i < num_connections - 1 THEN start_byte + part_size - 1
                    ELSE file_size - 1
  IN <<start_byte, end_byte>>

\* the merge loop: the part files written one after another, in the order of i
RECURSIVE Merged(_, _)
Merged(data, n) == IF n = 0 THEN <<>> ELSE Merged(data, n - 1) \o data[n - 1]

\* the variables download_file_parallel does not touch
others == <<PENDING_UPLOADS, heap, media, threads, files, count, issued, links, done, last>>

Parts == 0..(par.num_connections - 1)

\* a call download_file_parallel(url, 'temp.mp4', num_connections) is about to
\* start; the file has size bytes; content-length is sent or is missing
InitDl ==
  /\ PENDING_UPLOADS = [u \in Users |-> 0]
  /\ heap = [s \in SessIds |-> Free]
  /\ media = {}
  /\ threads = [t \in Threads |-> IdleThread]
  /\ files = {}
  /\ count = 0
  /\ issued = {}
  /\ links = {}
  /\ done = {}
  /\ last = NoLast
  /\ \E size \in 1..MaxSize, n \in 1..MaxConn, known \in BOOLEAN :
       par = [ pc |-> "head", size |-> size, num_connections |-> n,
               file_size |-> IF known THEN size ELSE 0,
               \* download_part(i): "queued", "running", "ok" (returned True),
               \* "failed" (returned False)
               st |-> [i \in 0..(n - 1) |-> "none"],
               temp_files |-> {},
               \* the part files and the destination: which exist, what they hold
               parts |-> {}, data |-> [i \in 0..(n - 1) |-> <<>>],
               dest |-> FALSE, dest_data |-> <<>>,
               \* the futures as_completed has yielded
               seen |-> {},
               result |-> "none",
               \* history: the GET requests that were started
               gets |-> 0,
               \* history: the parts that ever had a file, the parts not finished
               \* when the exception was raised, the parts that finished between
               \* the raise and the return
               wrote |-> {}, unfinished |-> {}, late |-> {} ]

\* mutant: the parts are submitted whatever the size is
dfp_head_parts ==
  /\ par.pc = "head"
  /\ \E raised \in BOOLEAN :
       par' = IF raised THEN [par EXCEPT !.pc = "except"]
              ELSE [par EXCEPT !.pc = "as_completed",
                               !.st = [i \in Parts |-> "queued"]]
  /\ UNCHANGED others

\* requests.head and the branch on file_size; with a known size the parts are
\* submitted to the executor
dfp_head ==
  /\ par.pc = "head"
  /\ \E raised \in BOOLEAN :
       par' = IF raised THEN [par EXCEPT !.pc = "except"]
              ELSE IF par.file_size = 0 THEN [par EXCEPT !.pc = "single"]
              ELSE [par EXCEPT !.pc = "as_completed",
                               !.st = [i \in Parts |-> "queued"]]
  /\ UNCHANGED others

\* the single connection of an unknown size: the whole file is streamed to the
\* destination, or the stream breaks and leaves what was written
dfp_single ==
  /\ par.pc = "single"
  /\ \E raised \in BOOLEAN :
       par' = IF raised
                THEN [par EXCEPT !.pc = "except", !.dest = TRUE, !.dest_data = <<>>,
                                 !.gets = @ + 1]
                ELSE [par EXCEPT !.pc = "returned", !.result = "True",
                                 !.dest = TRUE, !.dest_data = Source(par.size),
                                 !.gets = @ + 1]
  /\ UNCHANGED others

\* download_part(i) starts on its thread: temp_files.append(temp_file), and the
\* ranged GET is sent
download_part(i) ==
  /\ par.pc # "head" /\ par.pc # "single"
  /\ i \in DOMAIN par.st /\ par.st[i] = "queued"
  /\ par' = [par EXCEPT !.st[i] = "running", !.temp_files = @ \cup {i},
                        !.gets = @ + 1]
  /\ UNCHANGED others

\* download_part(i) ends: the body of the ranged request is in the part file and
\* True is returned, or an exception is caught, before or after the part file was
\* opened, and False is returned
download_part_end(i) ==
  /\ i \in DOMAIN par.st /\ par.st[i] = "running"
  /\ \E outcome \in {"ok", "failed_unopened", "failed_opened"} :
       LET r == PartRange(par.file_size, par.num_connections, i)
           p == [par EXCEPT !.late = IF par.pc \in {"shutdown", "except", "returned"}
                                       THEN @ \cup {i} ELSE @]
       IN par' = CASE outcome = "ok" ->
                        [p EXCEPT !.st[i] = "ok", !.parts = @ \cup {i}, !.wrote = @ \cup {i},
                                  !.data[i] = Response(par.size, r[1], r[2])]
                   [] outcome = "failed_opened" ->
                        [p EXCEPT !.st[i] = "failed", !.parts = @ \cup {i},
                                  !.wrote = @ \cup {i}, !.data[i] = <<>>]
                   [] outcome = "failed_unopened" ->
                        [p EXCEPT !.st[i] = "failed"]
  /\ UNCHANGED others

\* one turn of the loop over as_completed(futures): a finished future is yielded;
\* a False result raises, and after the last True result the loop ends
dfp_as_completed ==
  /\ par.pc = "as_completed"
  /\ \E i \in Parts \ par.seen :
       /\ par.st[i] \in {"ok", "failed"}
       /\ par' = IF par.st[i] = "failed"
                   THEN [par EXCEPT !.pc = "shutdown",
                                    !.unfinished = {j \in Parts : par.st[j] \in {"queued", "running"}}]
                   ELSE [par EXCEPT !.seen = @ \cup {i},
                                    !.pc = IF par.seen \cup {i} = Parts THEN "merge" ELSE @]
  /\ UNCHANGED others

\* mutant: the executor is left with shutdown(wait=False)
dfp_shutdown_nowait ==
  /\ par.pc = "shutdown"
  /\ par' = [par EXCEPT !.pc = "except"]
  /\ UNCHANGED others

\* the exception leaves the with block: ThreadPoolExecutor.__exit__ is
\* shutdown(wait=True), which returns when every submitted part has ended
dfp_shutdown ==
  /\ par.pc = "shutdown"
  /\ \A i \in Parts : par.st[i] \in {"ok", "failed"}
  /\ par' = [par EXCEPT !.pc = "except"]
  /\ UNCHANGED others

\* the except clause: every file of temp_files that exists is removed; return False
dfp_except ==
  /\ par.pc = "except"
  /\ par' = [par EXCEPT !.pc = "returned", !.result = "False",
                         !.parts = @ \ par.temp_files]
  /\ UNCHANGED others

\* the merge: the destination is written from the part files in the order of i
\* and each part file is removed; return True
dfp_merge ==
  /\ par.pc = "merge"
  /\ par' = [par EXCEPT !.pc = "returned", !.result = "True",
                         !.dest = TRUE,
                         !.dest_data = Merged(par.data, par.num_connections),
                         !.parts = {}]
  /\ UNCHANGED others

NextDl ==
  \/ dfp_head
  \/ dfp_single
  \/ \E i \in 0..(MaxConn - 1) : download_part(i)
  \/ \E i \in 0..(MaxConn - 1) : download_part_end(i)
  \/ dfp_as_completed
  \/ dfp_shutdown
  \/ dfp_except
  \/ dfp_merge

SpecDl == InitDl /\ [][NextDl]_vars

\* ------------------------------------------------------------ generate_video_collage
\* the longest video of a call, in whole seconds
MaxDur == 13

\* video_duration when the output of ffprobe is no number
FallbackDuration == 60

\* the values of settings['collage_frames'] a session can hold when the stage runs
CollageRequests == CollageChoices \cup {SuffixInt("set_collage_5")}

Max(a, b) == IF a >= b THEN a ELSE b

\* mutant: the values are used in the order they were drawn
sorted_skipped(seq) == seq

\* sorted(list): the k-th element is the one with k - 1 elements before it in the
\* order (equal elements by position)
sorted(seq) ==
  LET n == Len(seq)
      before(i) == {j \in 1..n : seq[j] < seq[i] \/ (seq[j] = seq[i] /\ j < i)}
  IN [k \in 1..n |-> seq[CHOOSE i \in 1..n : Cardinality(before(i)) = k - 1]]

\* Durations and timestamps are in milliseconds: 1000 is one second.

\* mutant: the duration is rounded up to whole seconds
ActualFramesCeil(d) == Max(1, (d + 999) \div 1000)

\* actual_frames = max(1, int(video_duration))
ActualFrames(d) == Max(1, d \div 1000)

\* collage_frames after the branches that choose the timestamps
EffectiveFrames(n, d) ==
  IF d < 1000 THEN 1
  ELSE IF d < 1000 * n THEN ActualFrames(d)
  ELSE n

\* the values random.random() is given in the model, in thousandths: the lowest
\* value and one just under 1
RandomSamples == {0, 999}

\* base + random.random() * width, for the random value r
Drawn(base, r, width) == base + (r * width) \div 1000

\* mutant: no margin is kept at the ends of a video of up to ten seconds
MarginNone(d) == 0

\* margin = video_duration * 0.1
Margin(d) == d \div 10

\* random_times, by the branch the duration selects; r is what random.random()
\* gives in turn (the centres of the second branch are cut to whole milliseconds)
RandomTimes(n, d, r) ==
  IF d < 1000 THEN <<500>>
  ELSE IF d < 1000 * n
    THEN [i \in 1..ActualFrames(d) |-> (d * (2 * (i - 1) + 1)) \div (2 * ActualFrames(d))]
  ELSE IF d > 10000
    THEN sorted([i \in 1..n |-> Drawn(5000, r[i], d - 10000)])
  ELSE sorted([i \in 1..n |-> Drawn(Margin(d), r[i], d - 2 * Margin(d))])

\* grid_cols, grid_rows: the table, read with collage_frames as it is by then
Grid(collage_frames) ==
  CASE collage_frames = 4  -> <<2, 2>>
    [] collage_frames = 6  -> <<3, 2>>
    [] collage_frames = 9  -> <<3, 3>>
    [] collage_frames = 12 -> <<4, 3>>
    [] OTHER               -> <<2, 2>>

\* generate_video_collage is called with a frame count and a video whose duration
\* ffprobe reports, or fails to report; requested keeps the frame count of the call
InitCollage ==
  /\ \E n \in CollageRequests, d \in 0..MaxDur, half \in BOOLEAN, parsed \in BOOLEAN :
       par = [ pc |-> "gvc_head", collage_frames |-> n, requested |-> n,
               video_duration |-> IF parsed THEN 1000 * d + (IF half THEN 500 ELSE 0)
                                  ELSE 1000 * FallbackDuration,
               random_times |-> <<>>, idx |-> 0, frames |-> 0, left |-> FALSE,
               image |-> FALSE, grid |-> <<0, 0>>, placed |-> 0, warned |-> FALSE ]
  /\ PENDING_UPLOADS = [u \in Users |-> 0]
  /\ heap = [s \in SessIds |-> Free]
  /\ media = {}
  /\ threads = [t \in Threads |-> IdleThread]
  /\ files = {}
  /\ count = 0
  /\ issued = {}
  /\ links = {}
  /\ done = {}
  /\ last = NoLast

\* the timestamps are chosen, and collage_frames is lowered for a short video
gvc_head ==
  /\ par.pc = "gvc_head"
  /\ \E r \in [1..par.collage_frames -> RandomSamples] :
       par' = [par EXCEPT !.pc = "gvc_extract",
                          !.collage_frames = EffectiveFrames(@, par.video_duration),
                          !.random_times = RandomTimes(par.collage_frames,
                                                       par.video_duration, r)]
  /\ UNCHANGED others

\* one turn of the loop over the timestamps: ffmpeg writes frame_{idx}.jpg and the
\* image is loaded and the file removed, or the frame is skipped, its file left
\* behind if ffmpeg wrote one before it failed
gvc_extract ==
  /\ par.pc = "gvc_extract"
  /\ par.idx < Len(par.random_times)
  /\ \E out \in {"loaded", "failed", "failed_left"} :
       par' = [par EXCEPT !.idx = @ + 1,
                          !.frames = IF out = "loaded" THEN @ + 1 ELSE @,
                          !.left = @ \/ out = "failed_left"]
  /\ UNCHANGED others

\* mutant: the grid is made only of more frames than collage_frames
EnoughStrict(frames, collage_frames) == frames > collage_frames

\* if len(frames) >= collage_frames
Enough(frames, collage_frames) == frames >= collage_frames

\* len(frames_resized[:collage_frames])
Placed(frames, collage_frames) == IF frames <= collage_frames THEN frames ELSE collage_frames

\* after the loop: the grid is chosen and the first collage_frames frames are
\* pasted, the image is saved, sent and removed, or the operator is told that the
\* collage is skipped; the function returns (the calls of PIL and of the Bot API
\* are taken to return)
gvc_decide ==
  /\ par.pc = "gvc_extract"
  /\ par.idx = Len(par.random_times)
  /\ par' = IF Enough(par.frames, par.collage_frames)
              THEN [par EXCEPT !.pc = "gvc_returned", !.image = TRUE,
                               !.grid = Grid(par.collage_frames),
                               !.placed = Placed(par.frames, par.collage_frames)]
              ELSE [par EXCEPT !.pc = "gvc_returned", !.warned = TRUE]
  /\ UNCHANGED others

NextCollage ==
  \/ gvc_head
  \/ gvc_extract
  \/ gvc_decide

SpecCollage == InitCollage /\ [][NextCollage]_vars

\* ------------------------------------------------------------ generate_video_preview
\* the longest source video of a call of generate_video_preview, in seconds
MaxSource == 9

\* clip_duration = 2
ClipDuration == 2

\* the values of settings['preview_length'] of a call: the buttons' values, and a
\* length under one clip, which handle_callback stores as well
PreviewRequests == PreviewChoices \cup {1}

\* int(preview_length / clip_duration): the quotient, cut towards zero
NumClips(preview_length) ==
  IF preview_length >= 0 THEN preview_length \div ClipDuration
  ELSE 0 - ((0 - preview_length) \div ClipDuration)

\* generate_video_preview is called with a length and a video whose duration
\* ffprobe reports, or fails to report
InitPreview ==
  /\ \E l \in PreviewRequests, d \in 0..MaxSource, parsed \in BOOLEAN :
       par = [ pc |-> "gvp_head", preview_length |-> l, video_duration |-> d,
               parsed |-> parsed, random_starts |-> <<>>, temp_clips |-> <<>>,
               concat_file |-> FALSE, preview |-> "none", order |-> <<>>,
               sent |-> FALSE, told |-> "" ]
  /\ PENDING_UPLOADS = [u \in Users |-> 0]
  /\ heap = [s \in SessIds |-> Free]
  /\ media = {}
  /\ threads = [t \in Threads |-> IdleThread]
  /\ files = {}
  /\ count = 0
  /\ issued = {}
  /\ links = {}
  /\ done = {}
  /\ last = NoLast

\* the duration is parsed; a short video is copied whole, for a longer one the
\* starts of the clips are drawn from [0, video_duration - clip_duration] and sorted
gvp_head ==
  /\ par.pc = "gvp_head"
  /\ IF ~par.parsed
       THEN par' = [par EXCEPT !.pc = "gvp_except"]
       ELSE IF par.video_duration <= par.preview_length
         THEN par' = [par EXCEPT !.pc = "gvp_send", !.preview = "source"]
         ELSE \E drawn \in [1..NumClips(par.preview_length)
                               -> 0..(par.video_duration - ClipDuration)] :
                par' = [par EXCEPT !.pc = "gvp_extract", !.random_starts = sorted(drawn)]
  /\ UNCHANGED others

\* one turn of the loop: ffmpeg cuts clip_duration seconds from the next start
\* into temp_clip_{i}.mp4, or fails (check=True raises)
gvp_extract ==
  /\ par.pc = "gvp_extract"
  /\ Len(par.temp_clips) < Len(par.random_starts)
  /\ \E ok \in BOOLEAN :
       par' = IF ok
                THEN [par EXCEPT !.temp_clips =
                        Append(@, [start |-> par.random_starts[Len(par.temp_clips) + 1],
                                   t |-> ClipDuration])]
                ELSE [par EXCEPT !.pc = "gvp_except"]
  /\ UNCHANGED others

\* the list of the clips is written and ffmpeg joins them in the order of the
\* list; the clips and the list are removed after a join that succeeded
gvp_concat ==
  /\ par.pc = "gvp_extract"
  /\ Len(par.temp_clips) = Len(par.random_starts)
  /\ \E ok \in BOOLEAN :
       par' = IF ok
                THEN [par EXCEPT !.pc = "gvp_send", !.preview = "clips",
                                 !.order = par.temp_clips, !.temp_clips = <<>>]
                ELSE [par EXCEPT !.pc = "gvp_except", !.concat_file = TRUE]
  /\ UNCHANGED others

\* preview.mp4 is sent and removed, or send_video raises
gvp_send ==
  /\ par.pc = "gvp_send"
  /\ \E ok \in BOOLEAN :
       par' = IF ok THEN [par EXCEPT !.pc = "gvp_returned", !.sent = TRUE]
                    ELSE [par EXCEPT !.pc = "gvp_except"]
  /\ UNCHANGED others

\* the except clause: the operator is told, the function returns
gvp_except ==
  /\ par.pc = "gvp_except"
  /\ par' = [par EXCEPT !.pc = "gvp_returned", !.told = "Preview generation failed"]
  /\ UNCHANGED others

NextPreview ==
  \/ gvp_head
  \/ gvp_extract
  \/ gvp_concat
  \/ gvp_send
  \/ gvp_except

SpecPreview == InitPreview /\ [][NextPreview]_vars

\* ------------------------------------------------------------ claims
\* the send operation that matches a kind
SendOp(k) == IF k = "video" THEN "send_video" ELSE "send_photo"

\* C1: a redeem of a token that a finalize issued for media m, kind k and protection
\* flag p sends exactly m, with the send operation of k and protect_content = p, to
\* any user; a redeem of a string that was never issued sends nothing and answers
\* that the link is invalid.
Thm_C1 ==
  last.op = "redeem" =>
    IF \E i \in issued : i.tok = last.tok
      THEN \A i \in issued : i.tok = last.tok =>
             /\ last.res = "sent"
             /\ last.f = i.f
             /\ last.k = SendOp(i.k)
             /\ last.prot = i.p
      ELSE /\ last.res = "not_found"
           /\ last.told = "invalid_link"
           /\ last.f = "" /\ last.k = ""

Wit_C1 ==
  /\ last.op = "redeem" /\ last.res = "sent"
  /\ ~is_admin(last.u)
  /\ last.prot = FALSE

\* C2: once a finalize of an owner has ended with its link returned, and the owner
\* has not uploaded since, the owner has no session and a finalize event of the
\* owner is answered session-expired (no handler is started for it).
Thm_C2 ==
  \A u \in done :
    /\ PENDING_UPLOADS[u] = 0
    /\ (last.op = "finalize" /\ last.u = u) =>
         (last.res = "expired" /\ last.told = "expired")

Wit_C2 == last.op = "finalize" /\ last.u \in done /\ last.res = "expired"

\* C3: for every upload event (session object) at most one token is issued.
Cex_C3 == \A s \in SessIds : Cardinality({i \in issued : i.sid = s}) <= 1

\* C4: the protection flag stored under a token is the one the session had when
\* the run of the finalize event began: a button press handled while the run is
\* under way does not change it.
Cex_C4 == \A i \in issued : i.p = i.p0

\* C5: in a run whose download succeeded, every stage that is enabled is attempted,
\* whichever stages failed, and a run that has returned its link has issued exactly
\* the token of that link.
Thm_C5 ==
  \A t \in Threads :
    LET th == threads[t]
    IN /\ (th.pc \in {"cleanup", "gen_link", "reply", "cb_del"} /\ th.dl = "ok" /\ ~th.dirty)
            => th.att = EnabledStages(th.snap)
       /\ th.pc = "cb_del" =>
            /\ [u |-> th.u, tok |-> th.payload] \in links
            /\ Cardinality({i \in issued : i.tok = th.payload /\ i.sid = th.sid}) = 1

Wit_C5 ==
  \E t \in Threads : threads[t].pc = "cb_del" /\ threads[t].fail = Stages

\* C6: when every acquisition path that was tried has failed, no transform stage
\* is started.
Cex_C6 ==
  \A t \in Threads :
    threads[t].dl = "failed" => (threads[t].att = {} /\ threads[t].pc \notin Stages)

\* C7: no two rows of the media table have the same payload.
Thm_C7 == \A r1, r2 \in media : r1.payload = r2.payload => r1 = r2

Wit_C7 == Cardinality(media) = 2 /\ Cardinality({i.sid : i \in issued}) = 2

\* C8: a finalize does not fail because its token candidate is already a key of
\* the media table.
Cex_C8 == ~(last.op = "insert_failed" /\ last.res = "IntegrityError")

\* C9: when the insert fails, no deep link is returned for that run and the
\* operator is told of the failure.
Cex_C9 == last.op = "insert_failed" => last.told = "error"

\* C10: after an upload by an admin the owner's session is the one just stored: it
\* holds the file and kind of this upload and waits for no text, whatever the
\* owner's session was before; the session object belongs to this owner alone.
Thm_C10 ==
  (last.op = "upload" /\ last.res # "denied") =>
    LET sid == PENDING_UPLOADS[last.u]
    IN /\ sid # 0
       /\ heap[sid].file_id = last.f
       /\ heap[sid].media_type = last.k
       /\ heap[sid].waiting_for = ""
       /\ \A u \in Users : PENDING_UPLOADS[u] = sid => u = last.u

Wit_C10 == last.op = "upload" /\ last.res = "replaced_waiting"

\* C11: a button press (other than the finalize button) of an admin who has no
\* session is answered session-expired and changes nothing: no session is created,
\* no session object of any owner is changed, and nothing is stored.
Thm_C11 ==
  [][ \A u \in ADMINS :
        (count' = count + 1 /\ last'.op = "option" /\ last'.u = u /\ PENDING_UPLOADS[u] = 0)
          => /\ last'.res = "expired" /\ last'.told = "expired"
             /\ PENDING_UPLOADS' = PENDING_UPLOADS
             /\ heap' = heap
             /\ media' = media ]_vars

\* an owner without a session pressed a button while the other owner's session,
\* with an option set, was live
Wit_C11 ==
  /\ last.op = "option" /\ last.res = "expired" /\ PENDING_UPLOADS[last.u] = 0
  /\ \E u \in ADMINS \ {last.u} :
       PENDING_UPLOADS[u] # 0 /\ heap[PENDING_UPLOADS[u]].generate_preview

\* C12: a button press that carries a value its menu does not offer (a frame count
\* outside {4, 6, 9, 12}, a suffix that is no number) leaves every field of every
\* session as it was.
Cex_C12 ==
  [][ (count' = count + 1 /\ last'.op = "option"
        /\ last'.res \in {"not_offered", "ValueError"}) => heap' = heap ]_vars

Rank(stage) ==
  CASE stage = "watermark" -> 1
    [] stage = "preview"   -> 2
    [] stage = "collage"   -> 3

\* C14: in every run of process_media the stages are started in the order
\* watermark, preview, collage, each at most once, and once the run has inserted
\* its token no stage is started any more: the run is past its last stage, and
\* after a download that succeeded every enabled stage has been started.
Thm_C14 ==
  \A t \in Threads :
    LET th == threads[t]
        o  == th.ord
    IN /\ \A i, j \in DOMAIN o : i < j => Rank(o[i]) < Rank(o[j])
       /\ th.payload # "" =>
            /\ th.pc \in {"instant_reply", "reply", "cb_del"}
            /\ (th.dl = "ok" /\ ~th.dirty) => EnabledStages(th.snap) \subseteq th.att

Wit_C14 ==
  \E t \in Threads :
    /\ threads[t].pc = "reply"
    /\ threads[t].ord = <<"watermark", "preview", "collage">>
    /\ threads[t].fail = {"preview"}

\* C15: in a run whose session has the watermark enabled, every preview and every
\* collage that is produced is extracted from the watermarked file.
Cex_C15 ==
  \A t \in Threads :
    (threads[t].snap.watermark_enabled /\ ~threads[t].dirty)
      => threads[t].used \subseteq {"watermarked.mp4"}

\* C16: the row a run has inserted under its token holds the file id and the kind
\* of the session the run finalizes, as the upload stored them, whatever stages
\* ran and however they ended; it never holds a working file.
Thm_C16 ==
  \A t \in Threads :
    LET th == threads[t]
    IN th.payload # "" =>
         \E r \in media :
           /\ r.payload = th.payload
           /\ r.file_id = heap[th.sid].file_id
           /\ r.media_type = heap[th.sid].media_type
           /\ r.file_id \in FileIds

\* a run that watermarked the video and cut a preview from the watermarked file
\* has inserted its row
Wit_C16 ==
  \E t \in Threads :
    /\ threads[t].pc = "reply"
    /\ threads[t].path = "watermarked.mp4"
    /\ threads[t].used = {"watermarked.mp4"}

\* C17: a payload that resolves to a row resolves to the same row after every
\* step: no upload, button press, text, finalize or redeem changes or removes a
\* row of the media table.
Thm_C17 ==
  [][ \A p \in Payloads : SelectMedia(p) # {} => SelectMedia(p)' = SelectMedia(p) ]_vars

\* after a row was inserted, the owner has uploaded another file
Wit_C17 ==
  /\ last.op = "upload" /\ last.res # "denied"
  /\ \E r \in media : r.file_id # last.f

\* the offsets of part i's range
RangeSet(i) ==
  LET r == PartRange(par.file_size, par.num_connections, i) IN r[1]..r[2]

\* C18: for a known size S >= 1 and N parts, every range has start <= end, the
\* ranges are pairwise disjoint and cover exactly 0..S-1, every part but the last
\* has S \div N bytes, and the merged destination is the source file.
Cex_C18 ==
  (par.pc \notin {"idle", "head"} /\ par.file_size >= 1) =>
    /\ \A i \in Parts :
         PartRange(par.file_size, par.num_connections, i)[1]
           <= PartRange(par.file_size, par.num_connections, i)[2]
    /\ \A i, j \in Parts : i # j => RangeSet(i) \cap RangeSet(j) = {}
    /\ UNION {RangeSet(i) : i \in Parts} = 0..(par.file_size - 1)
    /\ \A i \in Parts : i < par.num_connections - 1 =>
         Cardinality(RangeSet(i)) = par.file_size \div par.num_connections
    /\ par.result = "True" => (par.dest /\ par.dest_data = Source(par.size))

\* C19: when a part has failed and download_file_parallel has returned, it has
\* returned False, the destination does not exist and no part file exists.
Thm_C19 ==
  (par.pc = "returned" /\ \E i \in Parts : par.st[i] = "failed") =>
    /\ par.result = "False"
    /\ ~par.dest
    /\ par.parts = {}

\* the call has returned after a part failed with its file opened, another part
\* had written its file, and a third part was still not finished at the failure
Wit_C19 ==
  /\ par.pc = "returned"
  /\ \E i, j, k \in Parts :
       /\ par.st[i] = "failed" /\ i \in par.wrote
       /\ par.st[j] = "ok" /\ j \notin par.unfinished
       /\ k \in par.unfinished /\ k \in par.wrote

\* C20: when a part fails while other parts are not finished, the call returns
\* False without any of them finishing its download in between.
Cex_C20 ==
  (par.pc = "returned" /\ par.result = "False" /\ par.unfinished # {}) => par.late = {}

\* C21: the step that ends the Bot API download of a run leads to
\* download_with_pyrogram exactly when the download ended with the 'file is too
\* big' rejection, and download_with_pyrogram is entered from nowhere else.
Thm_C21 ==
  [][ \A t \in Threads :
        /\ (threads[t].pc = "download" /\ threads'[t].pc # "download")
             => (threads'[t].pc = "pyrogram"
                   <=> (last'.op = "download" /\ last'.res = "too_big"))
        /\ (threads[t].pc # "pyrogram" /\ threads'[t].pc = "pyrogram")
             => threads[t].pc = "download" ]_vars

\* download_with_pyrogram has run after a rejection and has fetched the video
Wit_C21 ==
  /\ last.op = "pyrogram" /\ last.res = "zero" /\ last.told = "True"
  /\ \E t \in Threads : threads[t].pc = "watermark" /\ threads[t].dl = "ok"

\* C22: download_with_pyrogram always returns, and it returns False when its
\* process ended with a status other than 0 or was not over after the timeout.
Cex_C22 ==
  last.op = "pyrogram" =>
    /\ last.res # "hung"
    /\ last.res \in {"nonzero", "timeout"} => last.told = "False"

\* C23: when a run of process_media for a video is past its finally clause and no
\* other run is under way, no working file exists.
Cex_C23 ==
  (\E t \in Threads :
     /\ threads[t].pc \in {"gen_link", "reply", "cb_del"}
     /\ threads[t].media_type = "video"
     /\ \A t2 \in Threads \ {t} : threads[t2].pc = "idle")
    => files = {}

\* C24: two presses of the protection button by the same owner that are handled
\* at overlapping times leave the flag at its original value, as handling them
\* one after the other does.  Violated: both handlers read the flag before either
\* stores it, and both store its negation.
Cex_C24 ==
  (count = 2 /\ \A t \in Threads : threads[t].pc = "idle")
    => heap[PENDING_UPLOADS[1]].content_protection
         = Uploaded(Free, "fA", "video").content_protection

\* the steps of process_media from the download to the finally clause
Pipeline == {"download", "pyrogram", "watermark", "preview", "collage", "cleanup"}

\* C25: while an owner's pipeline is running, a worker is free to take an event of
\* another owner, which therefore does not wait for the pipeline to end.
\* Violated: process_media runs inside handle_callback on a worker thread of the
\* pool, and pipelines can hold every worker thread.
Cex_C25 ==
  \A u \in ADMINS :
    (\E t \in Threads : threads[t].u = u /\ threads[t].pc \in Pipeline) => SomeIdle

Thm_C27 ==
  par.sent =>
    IF par.video_duration <= par.preview_length
      THEN par.preview = "source"
      ELSE /\ par.preview = "clips"
           /\ Len(par.order) = par.preview_length \div 2
           /\ \A i \in 1..Len(par.order) :
                /\ par.order[i].t = 2
                /\ 0 <= par.order[i].start
                /\ par.order[i].start <= par.video_duration - 2
           /\ \A i, j \in 1..Len(par.order) :
                i < j => par.order[i].start <= par.order[j].start

\* a 7 second preview of a 9 second video: three clips at different starts
Wit_C27 ==
  /\ par.pc = "gvp_returned" /\ par.sent
  /\ par.preview_length = 7 /\ par.video_duration = 9
  /\ Len(par.order) = 3
  /\ par.order[1].start < par.order[2].start
  /\ par.order[2].start < par.order[3].start

\* C28: an upload, option, text or finalize event of a user who is not an admin
\* leaves the sessions, the media table and the tokens that were issued as they
\* were, and every owner of a live session is an admin.
Thm_C28 ==
  [][ /\ \A u \in Users : PENDING_UPLOADS'[u] # 0 => u \in ADMINS
      /\ (last'.u \notin ADMINS /\ last'.op \in {"upload", "option", "text", "finalize"})
           => UNCHANGED <<PENDING_UPLOADS, heap, media, issued, links>> ]_vars

\* a user who is not an admin has just sent media while an admin has a session
\* and a token has been issued
Wit_C28 ==
  /\ last.op = "upload" /\ last.u \notin ADMINS /\ last.res = "denied"
  /\ \E u \in ADMINS : PENDING_UPLOADS[u] # 0
  /\ issued # {}

\* C29: a finalize of a session with no stage enabled ends without an error: the
\* handler never deletes a session entry that is no longer there.
\* Violated: process_media deletes the entry before it returns and handle_callback
\* deletes it again.
Cex_C29 ==
  [][ \A t \in Threads :
        (threads[t].pc = "instant_reply" /\ threads'[t].pc = "idle")
          => last'.res # "KeyError" ]_vars

\* C30: a finalize that ends removes only the session it consumed: a session its
\* owner has opened by an upload during the run is still there afterwards.
\* Violated: the del at the end of the handler removes whatever entry the owner
\* has at that moment.
Cex_C30 ==
  [][ \A t \in Threads :
        ( /\ threads[t].pc \in {"cb_del", "instant_reply"}
          /\ threads'[t].pc = "idle"
          /\ PENDING_UPLOADS[threads[t].u] \notin {0, threads[t].sid} )
          => PENDING_UPLOADS'[threads[t].u] = PENDING_UPLOADS[threads[t].u] ]_vars

\* the file a stage of a run reads: the download for the watermark, and for the
\* preview and the collage the file the watermark block has chosen
StageInput(t) == IF threads[t].pc = "watermark" THEN "temp.mp4" ELSE threads[t].path

\* C31: while the pipelines of two owners overlap, a run that has its download
\* and stands before a stage still finds the file the stage reads.
\* Violated: both runs work on the same names in the same directory, and the
\* cleanup_files of one removes the files of the other.
Cex_C31 ==
  \A t \in Threads :
    (threads[t].pc \in Stages /\ threads[t].dl = "ok") => StageInput(t) \in files

\* C32: a collage that was made has a grid with at least as many cells as frames
\* were pasted into it.
\* Violated: a frame count outside the table (5 frames of a video of five
\* seconds, for a request of 6) gets the 2x2 grid of the else branch.
Cex_C32 ==
  par.image => par.grid[1] * par.grid[2] >= par.placed

\* C33: the grid of a collage that was made is the entry of the table for the
\* frame count of the call, also when a short video has lowered collage_frames.
\* Violated: the table is read with the lowered collage_frames.
Cex_C33 ==
  par.image =>
    par.grid = CASE par.requested = 4  -> <<2, 2>>
                 [] par.requested = 6  -> <<3, 2>>
                 [] par.requested = 9  -> <<3, 3>>
                 [] par.requested = 12 -> <<4, 3>>
                 [] OTHER              -> <<2, 2>>

\* C34: once the timestamps are chosen there are as many as collage_frames says:
\* one, at 0.5 s, for a video under a second; floor(D) for a video of at least a
\* second that is shorter than the request; the requested count otherwise.
Thm_C34 ==
  par.pc # "gvc_head" =>
    LET D == par.video_duration
        N == par.requested
        k == Len(par.random_times)
    IN /\ k = par.collage_frames
       /\ D < 1000 => par.random_times = <<500>>
       /\ (1000 <= D /\ D < 1000 * N) => (k * 1000 <= D /\ D < (k + 1) * 1000)
       /\ D >= 1000 * N => k = N

\* a video of 2.5 s and a request of 4 frames: two timestamps
Wit_C34 ==
  /\ par.pc = "gvc_extract"
  /\ par.video_duration = 2500 /\ par.requested = 4
  /\ Len(par.random_times) = 2

\* C35: for a video of at least a second the timestamps are ascending and lie in
\* [5, D - 5] when D > 10 and D >= N, in [0.1 D, 0.9 D] when N <= D <= 10, and at
\* the evenly spaced centres D (i + 0.5) / floor(D), strictly between 0 and D,
\* when D < N.
Thm_C35 ==
  (par.pc # "gvc_head" /\ par.video_duration >= 1000) =>
    LET D == par.video_duration
        N == par.requested
        ts == par.random_times
        k == Len(ts)
    IN /\ \A i, j \in 1..k : i < j => ts[i] <= ts[j]
       /\ (D > 10000 /\ D >= 1000 * N) =>
            \A i \in 1..k : 5000 <= ts[i] /\ ts[i] <= D - 5000
       /\ (1000 * N <= D /\ D <= 10000) =>
            \A i \in 1..k : D <= 10 * ts[i] /\ 10 * ts[i] <= 9 * D
       /\ D < 1000 * N =>
            \A i \in 1..k : /\ 0 < ts[i] /\ ts[i] < D
                             /\ 2 * k * ts[i] <= D * (2 * i - 1)
                             /\ D * (2 * i - 1) < 2 * k * (ts[i] + 1)

\* nine timestamps of a video of 13 s, the first at its lower end and the last
\* higher
Wit_C35 ==
  /\ par.pc = "gvc_extract"
  /\ par.requested = 9 /\ par.video_duration = 13000
  /\ Len(par.random_times) = 9
  /\ par.random_times[1] = 5000
  /\ par.random_times[9] > par.random_times[1]

\* C36: a text taken by handle_watermark_text finds its owner's session waiting
\* for text and leaves it live and no longer waiting; /cancel changes no other
\* field, any other text changes the watermark text and no other field.
Thm_C36 ==
  [][ (last'.op = "text" /\ last'.res = "applied") =>
        LET sid == PENDING_UPLOADS[last'.u]
        IN /\ sid # 0
           /\ heap[sid].waiting_for = "watermark_text"
           /\ PENDING_UPLOADS'[last'.u] = sid
           /\ IF last'.told = "cancelled"
                THEN heap'[sid] = [heap[sid] EXCEPT !.waiting_for = ""]
                ELSE \E x \in Texts :
                       heap'[sid] = [heap[sid] EXCEPT !.waiting_for = "",
                                                      !.watermark_text = x] ]_vars

\* a watermark text has just been set on a session
Wit_C36 ==
  /\ last.op = "text" /\ last.res = "applied" /\ last.told = "text_set"
  /\ PENDING_UPLOADS[last.u] # 0
  /\ heap[PENDING_UPLOADS[last.u]].watermark_text = "wm"
  /\ heap[PENDING_UPLOADS[last.u]].waiting_for = ""

\* C37: an option or text event of a user leaves every other user's session
\* entry and the fields of that session as they were.
Thm_C37 ==
  [][ last'.op \in {"option", "text"} =>
        \A v \in Users \ {last'.u} :
          /\ PENDING_UPLOADS'[v] = PENDING_UPLOADS[v]
          /\ PENDING_UPLOADS[v] # 0 =>
               heap'[PENDING_UPLOADS[v]] = heap[PENDING_UPLOADS[v]] ]_vars

\* an option of one admin has just been applied while the other admin has a
\* session of their own
Wit_C37 ==
  /\ last.op = "option" /\ last.res = "applied" /\ last.u = 1
  /\ PENDING_UPLOADS[1] # 0 /\ PENDING_UPLOADS[2] # 0
  /\ heap[PENDING_UPLOADS[1]] # heap[PENDING_UPLOADS[2]]

\* C38: when the probe gives no size, no part is ever submitted and no part file
\* is made, at most one GET is sent, and once the destination is written exactly
\* one GET, the stream into the destination, has been sent.
Thm_C38 ==
  par.file_size = 0 =>
    /\ \A i \in Parts : par.st[i] = "none"
    /\ par.temp_files = {} /\ par.parts = {} /\ par.wrote = {}
    /\ par.gets <= 1
    /\ par.dest => par.gets = 1
    /\ (par.pc = "returned" /\ par.result = "True") =>
         (par.dest /\ par.dest_data = Source(par.size))

\* a file of unknown size was streamed whole by a call that asked for three
\* connections
Wit_C38 ==
  /\ par.pc = "returned" /\ par.result = "True"
  /\ par.file_size = 0 /\ par.num_connections = 3
  /\ par.gets = 1 /\ par.dest_data = Source(par.size)

\* C39: a run downloads only for a video session with a preview, a collage or
\* the watermark enabled.  Every other run, the one of a photo with stages
\* enabled included, starts no download and no stage and has no working file,
\* and by the time its link is sent it has issued exactly one token.
Thm_C39 ==
  \A t \in Threads :
    LET th == threads[t]
        heavy == /\ th.media_type = "video"
                 /\ \/ th.snap.generate_preview
                    \/ th.snap.generate_collage
                    \/ th.snap.watermark_enabled
    IN /\ (th.dl # "none" \/ th.pc \in Pipeline) => heavy
       /\ (th.pc \notin {"idle", "pm_entry"} /\ ~heavy) =>
            /\ th.pc \in {"instant", "instant_reply", "gen_link", "reply", "cb_del"}
            /\ th.dl = "none" /\ th.att = {} /\ th.path = "" /\ th.used = {}
            /\ th.pc \in {"instant", "gen_link"} => th.payload = ""
            /\ th.pc \in {"instant_reply", "reply", "cb_del"} =>
                 Cardinality({r \in issued : r.tok = th.payload /\ r.sid = th.sid}) = 1

\* the link of a photo session with a preview and a collage enabled is being
\* sent: one token, no download, no stage
Wit_C39 ==
  \E t \in Threads :
    /\ threads[t].pc = "reply"
    /\ threads[t].media_type = "photo"
    /\ threads[t].snap.generate_preview /\ threads[t].snap.generate_collage
    /\ threads[t].dl = "none" /\ threads[t].att = {}
    /\ files = {}
    /\ Cardinality(issued) = 1

\* C40: whenever no handler is running, every live session has its preview
\* enabled exactly if a preview length is set, and its collage enabled exactly
\* if a frame count is set.
\* Violated: the value and the flag are two assignments with no lock, and two
\* presses handled at the same time can leave the flag of one with the value of
\* the other.
Cex_C40 ==
  (\A t \in Threads : threads[t].pc = "idle") =>
    \A u \in Users :
      PENDING_UPLOADS[u] # 0 =>
        LET s == heap[PENDING_UPLOADS[u]]
        IN /\ s.generate_preview <=> s.preview_length # None
           /\ s.generate_collage <=> s.collage_frames # None

====
